---- MODULE Spec2Model ----
(***************************************************************************)
(* CatsTrie (Trie.py): a trie over lowercase sentences whose nodes carry   *)
(* the frequency of the sentence ending there and the best frequency of    *)
(* any sentence below them, and the greedy autoComplete query over it.     *)
(*                                                                         *)
(* Characters are their code points (ord), the heap of Node objects is a   *)
(* sequence of records indexed by allocation order, and a reference is an  *)
(* index into that sequence (0 for Python's None).                         *)
(***************************************************************************)
EXTENDS Integers, Sequences, FiniteSets

\* ---------------------------------------------------------------- bounds
NumLetters == 2       \* letters of the alphabet in use (the source has 26)
BuildChars == 7       \* size of the corpus: the characters of its sentences,
                      \* one more per sentence for its end
MaxChars == 6         \* the same, where the trie is queried
RepeatChars == 4      \* the same, where earlier calls are remembered

\* ------------------------------------------------------ program constants
OrdA == 97            \* ord('a'), Trie.py:145 and :202
ChrBase == 96         \* chr(index + 96), Trie.py:121
None == 0             \* the null reference
root == 1             \* self.root, the first Node allocated

Letters == OrdA..(OrdA + NumLetters - 1)
Slots == 0..NumLetters

Strings(n) == UNION {[1..k -> Letters] : k \in 0..n}

\* The corpora of size at most w, in every order of their sentences.
RECURSIVE Corpora(_)
Corpora(w) ==
    {<<>>} \cup UNION {{<<s>> \o c : c \in Corpora(w - Len(s) - 1)} : s \in Strings(w - 1)}

NoneResult == <<0>>   \* autoComplete's None, distinct from every string

VARIABLES
    sentences,   \* the constructor's argument
    idx,         \* number of sentences the constructor's loop has inserted
    nodes,       \* the heap: nodes[n] is a Node (link, frequency, best_sub_frequency)
    lastOp,      \* the operation that produced this state
    prompt,      \* argument of the last autoComplete call
    result,      \* value returned by the last autoComplete call
    memo         \* an earlier autoComplete call, remembered as {<<prompt, result>>}
                 \* (SpecRepeat only)

vars == <<sentences, idx, nodes, lastOp, prompt, result, memo>>

\* ------------------------------------------------------------------ Node
\* Variant: a Node that counts itself on creation.
NewNodeCounted ==
    [link |-> [i \in Slots |-> None], frequency |-> 1, best_sub_frequency |-> 0]

NewNode ==
    [link |-> [i \in Slots |-> None], frequency |-> 0, best_sub_frequency |-> 0]

\* ------------------------------------------------------- insert_recur_aux
\* The heap is threaded through the recursion; the result carries the heap
\* after the call and the returned best_sub_frequency.
\* Variant: the returned sub_frequency is stored without comparing it with
\* the best_sub_frequency already there.
RECURSIVE insert_recur_aux_overwrite(_, _, _)
insert_recur_aux_overwrite(h, current, key) ==
    IF Len(key) = 0
    THEN LET h1  == IF h[current].link[0] = None
                    THEN Append([h EXCEPT ![current].link[0] = Len(h) + 1], NewNode)
                    ELSE h
             cur == h1[current].link[0]
             h2  == [h1 EXCEPT ![cur].frequency = @ + 1]
             h3  == IF h2[cur].frequency > h2[cur].best_sub_frequency
                    THEN [h2 EXCEPT ![cur].best_sub_frequency = h2[cur].frequency]
                    ELSE h2
         IN  [heap |-> h3, ret |-> h3[cur].best_sub_frequency]
    ELSE LET index == key[1] - OrdA + 1
             h1  == IF h[current].link[index] # None
                    THEN h
                    ELSE Append([h EXCEPT ![current].link[index] = Len(h) + 1], NewNode)
             cur == h1[current].link[index]
             r   == insert_recur_aux_overwrite(h1, cur, Tail(key))
             h3  == [r.heap EXCEPT ![cur].best_sub_frequency = r.ret]
         IN  [heap |-> h3, ret |-> h3[cur].best_sub_frequency]

RECURSIVE insert_recur_aux(_, _, _)
insert_recur_aux(h, current, key) ==
    IF Len(key) = 0
    THEN LET h1  == IF h[current].link[0] = None
                    THEN Append([h EXCEPT ![current].link[0] = Len(h) + 1], NewNode)
                    ELSE h
             cur == h1[current].link[0]
             h2  == [h1 EXCEPT ![cur].frequency = @ + 1]
             h3  == IF h2[cur].frequency > h2[cur].best_sub_frequency
                    THEN [h2 EXCEPT ![cur].best_sub_frequency = h2[cur].frequency]
                    ELSE h2
         IN  [heap |-> h3, ret |-> h3[cur].best_sub_frequency]
    ELSE LET index == key[1] - OrdA + 1
             h1  == IF h[current].link[index] # None
                    THEN h
                    ELSE Append([h EXCEPT ![current].link[index] = Len(h) + 1], NewNode)
             \* current is rebound to the child before the recursive call
             cur == h1[current].link[index]
             r   == insert_recur_aux(h1, cur, Tail(key))
             sub_frequency == r.ret
             h2  == r.heap
             h3  == IF sub_frequency > h2[cur].best_sub_frequency
                    THEN [h2 EXCEPT ![cur].best_sub_frequency = sub_frequency]
                    ELSE h2
         IN  [heap |-> h3, ret |-> h3[cur].best_sub_frequency]

insert_recur(h, key) == insert_recur_aux(h, root, key).heap

\* The constructor: a fresh root, then every sentence in order.
RECURSIVE BuildFrom(_, _)
BuildFrom(h, ss) ==
    IF Len(ss) = 0 THEN h
    ELSE BuildFrom(insert_recur(h, Head(ss)), Tail(ss))

Build(ss) == BuildFrom(<<NewNode>>, ss)

\* --------------------------------------------------------------- findNode
RECURSIVE findNodeFrom(_, _, _)
findNodeFrom(h, current, rest) ==
    IF Len(rest) = 0 THEN current
    ELSE LET index == rest[1] - OrdA + 1
         IN  IF h[current].link[index] # None
             THEN findNodeFrom(h, h[current].link[index], Tail(rest))
             ELSE None

findNode(h, p) == findNodeFrom(h, root, p)

\* -------------------------------------------------------- autoCompleteAux
\* ScanLinks is the for loop over range(1, 27): acc carries max_frequency, best_sub_node
\* and index across the iterations.
\* Variant: >= in place of >, so the last of several equal children wins.
RECURSIVE ScanLinksLastWins(_, _, _, _)
ScanLinksLastWins(h, current, i, acc) ==
    IF i > NumLetters THEN acc
    ELSE LET c == h[current].link[i]
         IN  IF c # None /\ h[c].best_sub_frequency >= acc.max_frequency
             THEN ScanLinksLastWins(h, current, i + 1,
                      [max_frequency |-> h[c].best_sub_frequency,
                       best_sub_node |-> c, index |-> i])
             ELSE ScanLinksLastWins(h, current, i + 1, acc)

\* Variant: the loop stops one slot early.
RECURSIVE ScanLinksShort(_, _, _, _)
ScanLinksShort(h, current, i, acc) ==
    IF i > NumLetters - 1 THEN acc
    ELSE LET c == h[current].link[i]
         IN  IF c # None /\ h[c].best_sub_frequency > acc.max_frequency
             THEN ScanLinksShort(h, current, i + 1,
                      [max_frequency |-> h[c].best_sub_frequency,
                       best_sub_node |-> c, index |-> i])
             ELSE ScanLinksShort(h, current, i + 1, acc)

RECURSIVE ScanLinks(_, _, _, _)
ScanLinks(h, current, i, acc) ==
    IF i > NumLetters THEN acc
    ELSE LET c == h[current].link[i]
         IN  IF c # None /\ h[c].best_sub_frequency > acc.max_frequency
             THEN ScanLinks(h, current, i + 1,
                      [max_frequency |-> h[c].best_sub_frequency,
                       best_sub_node |-> c, index |-> i])
             ELSE ScanLinks(h, current, i + 1, acc)

\* Variant: a terminator child ends the descent whatever its frequency.
RECURSIVE autoCompleteAuxFirstEnd(_, _, _, _)
autoCompleteAuxFirstEnd(h, node, max_frequency, word) ==
    IF \A i \in 1..NumLetters : h[node].link[i] = None
    THEN word
    ELSE LET s == ScanLinks(h, node, 1,
                      [max_frequency |-> -1, best_sub_node |-> None, index |-> 0])
         IN  IF h[node].link[0] # None
             THEN word
             ELSE IF s.best_sub_node # None
                  THEN autoCompleteAuxFirstEnd(h, s.best_sub_node, s.max_frequency,
                                               Append(word, s.index + ChrBase))
                  ELSE NoneResult

RECURSIVE autoCompleteAux(_, _, _, _)
autoCompleteAux(h, node, max_frequency, word) ==
    IF \A i \in 1..NumLetters : h[node].link[i] = None
    THEN word
    ELSE LET s == ScanLinks(h, node, 1,
                      [max_frequency |-> -1, best_sub_node |-> None, index |-> 0])
         IN  IF h[node].link[0] # None
                 /\ h[h[node].link[0]].frequency >= s.max_frequency
             THEN word
             ELSE IF s.best_sub_node # None
                  THEN autoCompleteAux(h, s.best_sub_node, s.max_frequency,
                                       Append(word, s.index + ChrBase))
                  ELSE NoneResult

\* ----------------------------------------------------------- autoComplete
autoComplete(h, p) ==
    LET max_frequency == -1
        node == findNode(h, p)
    IN  IF node = None THEN NoneResult
        ELSE autoCompleteAux(h, node, max_frequency, p)

\* ---------------------------------------------------------------- system
InitOn(corpora) ==
    /\ sentences \in corpora
    /\ idx = 0
    /\ nodes = Build(<<>>)
    /\ lastOp = "init"
    /\ prompt = <<>>
    /\ result = NoneResult
    /\ memo = {}

Init == InitOn(Corpora(MaxChars))

InitBuild == InitOn(Corpora(BuildChars))

InitRepeat == InitOn(Corpora(RepeatChars))

\* One iteration of the constructor's loop: self.insert_recur(sentence).
Insert ==
    /\ idx < Len(sentences)
    /\ nodes' = insert_recur(nodes, sentences[idx + 1])
    /\ idx' = idx + 1
    /\ lastOp' = "insert_recur"
    /\ UNCHANGED <<sentences, prompt, result, memo>>

\* Variant: the call stores its initial max_frequency in the node found.
AutoCompleteCachesMax(p) ==
    /\ idx = Len(sentences)
    /\ result' = autoComplete(nodes, p)
    /\ prompt' = p
    /\ lastOp' = "autoComplete"
    /\ nodes' = IF findNode(nodes, p) = None THEN nodes
               ELSE [nodes EXCEPT ![findNode(nodes, p)].best_sub_frequency = -1]
    /\ UNCHANGED <<sentences, idx>>

\* Variant: the call inserts its prompt into the trie after answering.
AutoCompleteRecordsPrompt(p) ==
    /\ idx = Len(sentences)
    /\ result' = autoComplete(nodes, p)
    /\ prompt' = p
    /\ lastOp' = "autoComplete"
    /\ nodes' = insert_recur(nodes, p)
    /\ UNCHANGED <<sentences, idx>>

\* A call of autoComplete(p) on the constructed trie.
AutoComplete(p) ==
    /\ idx = Len(sentences)
    /\ result' = autoComplete(nodes, p)
    /\ prompt' = p
    /\ lastOp' = "autoComplete"
    /\ UNCHANGED <<sentences, idx, nodes>>

\* The prompts queried: every prefix of a sentence of the corpus, and every
\* such prefix with one more letter.  Any other prompt runs into findNode's
\* return None at a letter where one of these already does.
Prefixes ==
    {<<>>} \cup UNION {{SubSeq(sentences[i], 1, n) : n \in 0..Len(sentences[i])} :
                          i \in 1..Len(sentences)}
Prompts == Prefixes \cup {Append(q, c) : q \in Prefixes, c \in Letters}

Query == \E p \in Prompts : AutoComplete(p) /\ UNCHANGED memo

\* The same call, where the caller may keep the previous call's prompt and
\* answer to compare later ones with.
QueryAgain ==
    \E p \in Prompts :
        /\ AutoComplete(p)
        /\ memo' \in IF lastOp = "autoComplete"
                     THEN {memo, {<<prompt, result>>}}
                     ELSE {memo}

Next == Insert \/ Query

Spec == Init /\ [][Next]_vars

\* The constructor alone.
NextBuild == Insert

SpecBuild == InitBuild /\ [][NextBuild]_vars

NextRepeat == Insert \/ QueryAgain

SpecRepeat == InitRepeat /\ [][NextRepeat]_vars

\* ------------------------------------------------- vocabulary of the claims
Queried == lastOp = "autoComplete"

\* The sentences inserted so far, as a set, and how often each was inserted.
Corpus == {sentences[i] : i \in 1..idx}
Count(s) == Cardinality({i \in 1..idx : sentences[i] = s})

IsPrefix(p, s) == Len(p) <= Len(s) /\ SubSeq(s, 1, Len(p)) = p

\* Python's order on strings.
RECURSIVE LexLeq(_, _)
LexLeq(a, b) ==
    IF Len(a) = 0 THEN TRUE
    ELSE IF Len(b) = 0 THEN FALSE
    ELSE IF a[1] < b[1] THEN TRUE
    ELSE IF a[1] > b[1] THEN FALSE
    ELSE LexLeq(Tail(a), Tail(b))

MaxOf(S) == IF S = {} THEN 0 ELSE CHOOSE m \in S : \A x \in S : m >= x

Matches(p) == {s \in Corpus : IsPrefix(p, s)}
MaxCount(p) == MaxOf({Count(s) : s \in Matches(p)})
Best(p) == {s \in Matches(p) : Count(s) = MaxCount(p)}

\* Nodes of the subtree below n (n included), and the terminator nodes.
RECURSIVE Subtree(_, _)
Subtree(h, n) ==
    {n} \cup UNION {Subtree(h, h[n].link[i]) : i \in {j \in Slots : h[n].link[j] # None}}

Terminators(h) == {h[n].link[0] : n \in 1..Len(h)} \ {None}

BestBelow(h, n) == MaxOf({h[t].frequency : t \in Subtree(h, n) \cap Terminators(h)})

\* The terminator nodes below n, each with the string its path spells, where
\* word is the string spelled by the path to n.
RECURSIVE SpelledBelow(_, _, _)
SpelledBelow(h, n, word) ==
    (IF h[n].link[0] = None THEN {} ELSE {<<word, h[n].link[0]>>})
    \cup UNION {SpelledBelow(h, h[n].link[i], Append(word, i + ChrBase)) :
                   i \in {j \in 1..NumLetters : h[n].link[j] # None}}

Spelled(h) == SpelledBelow(h, root, <<>>)

\* A trie up to the identity of its nodes: every slot path that leads to a
\* node, with that node's two counters.
RECURSIVE CanonBelow(_, _, _)
CanonBelow(h, n, path) ==
    {<<path, h[n].frequency, h[n].best_sub_frequency>>}
    \cup UNION {CanonBelow(h, h[n].link[i], Append(path, i)) :
                   i \in {j \in Slots : h[n].link[j] # None}}

Canon(h) == CanonBelow(h, root, <<>>)

\* Every order of the sentences at the positions I of the corpus.
RECURSIVE Orderings(_)
Orderings(I) ==
    IF I = {} THEN {<<>>}
    ELSE UNION {{<<s>> \o o : o \in Orderings(I \ {CHOOSE i \in I : sentences[i] = s})} :
                    s \in {sentences[i] : i \in I}}

\* ------------------------------------------------------------------ claims

\* C1: when the prompt is a prefix of some corpus sentence, the sentence
\* autoComplete returns occurs in the corpus as often as the most frequent
\* corpus sentence starting with the prompt.
C1_ReturnsMostFrequent ==
    (Queried /\ Matches(prompt) # {}) => Count(result) = MaxCount(prompt)

C1_Witness ==
    /\ Queried
    /\ result # prompt
    /\ \E s \in Matches(prompt) : Count(s) < Count(result)
    /\ Count(result) >= 2

\* C2: when several corpus sentences starting with the prompt tie at the
\* maximum count, autoComplete returns the lexicographically smallest of
\* them (a proper prefix before its extensions, a lower letter before a
\* higher one).
C2_TieReturnsLexSmallest ==
    (Queried /\ Cardinality(Best(prompt)) >= 2) =>
        /\ result \in Best(prompt)
        /\ \A t \in Best(prompt) : LexLeq(result, t)

C2_Witness ==
    /\ Queried
    /\ result # prompt
    /\ \E t \in Best(prompt) : t # result /\ IsPrefix(result, t)

\* C3: whatever the corpus and the prompt, a string returned by autoComplete
\* is an element of the corpus and has the prompt as a prefix.
C3_ReturnedIsCorpusMember ==
    (Queried /\ result # NoneResult) =>
        (result \in Corpus /\ IsPrefix(prompt, result))

\* C4: when the prompt is a prefix of no corpus sentence, autoComplete
\* returns None; with an empty corpus that is every prompt, the empty one
\* included.
C4_NoMatchReturnsNone ==
    (Queried /\ Matches(prompt) = {}) => result = NoneResult

\* C5: after every insertion every node's best_sub_frequency, the root's
\* included, is the maximum frequency over the terminator nodes of its
\* subtree.
C5_AggregateEverywhere ==
    \A n \in 1..Len(nodes) : nodes[n].best_sub_frequency = BestBelow(nodes, n)

\* C6: a call of autoComplete leaves the heap as it was: the same nodes, the
\* same links, the same frequency and best_sub_frequency in every node.
C6_QueryLeavesHeap ==
    [][lastOp' = "autoComplete" => nodes' = nodes]_vars

C6_Witness ==
    /\ Queried
    /\ result # NoneResult
    /\ result # prompt
    /\ Cardinality(Corpus) >= 2

\* C7: on a built trie, a call of autoComplete returns what every earlier
\* call with the same prompt returned, whatever calls came in between.
C7_RepeatedQuerySameResult ==
    Queried => \A m \in memo : m[1] = prompt => m[2] = result

C7_Witness ==
    /\ Queried
    /\ result # NoneResult
    /\ result # prompt
    /\ \E m \in memo : m[1] = prompt

\* C8: after any insertions, the path spelling s ends in a terminator node
\* exactly when s has been inserted, that node's frequency is the number of
\* times s has been inserted, and there are no other terminator nodes.
C8_TerminatorCountsInsertions ==
    /\ {e[1] : e \in Spelled(nodes)} = Corpus
    /\ \A e \in Spelled(nodes) : nodes[e[2]].frequency = Count(e[1])
    /\ Cardinality(Terminators(nodes)) = Cardinality(Corpus)

C8_Witness ==
    /\ lastOp = "insert_recur"
    /\ \E s, t \in Corpus : Count(s) = 2 /\ Count(t) = 1 /\ IsPrefix(t, s)

\* C9: autoComplete returns None exactly when findNode does: once findNode
\* has found a node the descent always returns a string, so a prompt that is
\* a prefix of a corpus sentence always gets one.
C9_NoneOnlyFromFindNode ==
    Queried =>
        /\ result = NoneResult <=> findNode(nodes, prompt) = None
        /\ Matches(prompt) # {} => result # NoneResult

C9_Witness ==
    /\ Queried
    /\ LET n == findNode(nodes, prompt)
       IN  /\ n # None
           /\ nodes[n].link[0] = None
           /\ nodes[n].link[NumLetters] # None
           /\ result # NoneResult

\* C10: inserting the same sentences in any other order builds a trie of the
\* same shape with the same frequency and best_sub_frequency in every node,
\* and autoComplete answers every prompt the same on both.
C10_OrderIndependent ==
    lastOp = "insert_recur" =>
        \A o \in Orderings(1..idx) :
            LET h == Build(o)
            IN  /\ Len(h) = Len(nodes)
                /\ Canon(h) = Canon(nodes)
                /\ \A p \in Prompts : autoComplete(h, p) = autoComplete(nodes, p)

C10_Witness ==
    /\ lastOp = "insert_recur"
    /\ idx = 3
    /\ \E i, j \in 1..idx :
          /\ i < j
          /\ Len(sentences[i]) > 0
          /\ sentences[i] # sentences[j]
          /\ IsPrefix(sentences[i], sentences[j])
          /\ Count(sentences[i]) = 2
====
